---- MODULE Spec2Model ----
(***************************************************************************)
(* Model of the Thorlabs ELL17 linear-stage driver (src/main.py).          *)
(*                                                                         *)
(* Bytes are one-character strings ("CR" and "LF" stand for the two line   *)
(* terminators); a request or a reply is a sequence of bytes.  A position  *)
(* in mm is an exact fraction <<numerator, denominator>> in lowest terms;  *)
(* an attribute that has not been assigned yet is <<>>, -1 or "".          *)
(***************************************************************************)
EXTENDS Integers, Sequences, FiniteSets, TLC

VARIABLES
    pc,          \* where the program is: new, probe, read1, read2, ret, idle, dead
    timeout,     \* self.timeout: the configured operating timeout (ms)
    ser_timeout, \* self.ser.timeout: the transport's current read timeout (ms)
    addr,        \* self.addr ("" while the attribute does not exist)
    info,        \* DeviceInfo attributes set by get_info
    pos,         \* self.pos
    velocity,    \* self.velocity
    jogsize,     \* self.jogsize
    err,         \* self.err
    err_msg,     \* self.err_msg
    op,          \* the public operation in progress (or the last one) and its arguments
    saved,       \* addr, info, pos, velocity, jogsize when the operation was called
    cur,         \* the method whose _query_msg call is in progress
    todo,        \* the calls the running operation still has to make after cur
    probe,       \* index (0..15) of the address being probed by __init__
    wire,        \* the requests written to the transport by the operation, in order
    nreads,      \* the number of reads the operation has performed
    rd,          \* the bytes the transport returned to the last read
    first,       \* the bytes the first read of the current _query_msg returned
    ret,         \* what the last _query_msg returned: resp, r_addr, r_cmd
    outcome,     \* how the last operation ended: "", "ok" or the exception raised
    unread,      \* the bytes received by the transport that no read has returned yet
    budget,      \* the number of commands the caller will still issue (-1: any number)
    cx,          \* codec check: the integer to encode
    cbits,       \* codec check: the bit width
    chex,        \* codec check: dec2hex(cx, cbits)
    cdec,        \* codec check: hex2dec(chex)
    cpc          \* codec check: in, encoded, decoded

vars == <<pc, timeout, ser_timeout, addr, info, pos, velocity, jogsize,
          err, err_msg, op, saved, cur, todo, probe, wire, nreads, rd, first,
          ret, outcome, unread, budget, cx, cbits, chex, cdec, cpc>>

drvVars == <<pc, timeout, ser_timeout, addr, info, pos, velocity, jogsize,
             err, err_msg, op, saved, cur, todo, probe, wire, nreads, rd, first,
             ret, outcome, unread, budget>>

codecVars == <<cx, cbits, chex, cdec, cpc>>

----------------------------------------------------------------------------
(* Bytes, slices and Python's int() and format()                            *)

LowerHex == <<"0","1","2","3","4","5","6","7","8","9","a","b","c","d","e","f">>
UpperHex == <<"0","1","2","3","4","5","6","7","8","9","A","B","C","D","E","F">>

Min(a, b) == IF a < b THEN a ELSE b
Max(a, b) == IF a > b THEN a ELSE b
Abs(x) == IF x < 0 THEN -x ELSE x

\* s[i:j] of Python for 0 <= i <= j: the bytes at 0-based places i .. j-1 that exist.
Slice(s, i, j) == SubSeq(s, i + 1, Min(j, Len(s)))

Take(s, n) == SubSeq(s, 1, Min(n, Len(s)))

IsHexDigit(c) == \E i \in 1..16 : LowerHex[i] = c \/ UpperHex[i] = c
IsDecDigit(c) == \E i \in 1..10 : LowerHex[i] = c
DigitVal(c) == (CHOOSE i \in 1..16 : LowerHex[i] = c \/ UpperHex[i] = c) - 1

IsSpace(c) == c \in {"CR", "LF", " "}

\* bytes.strip(): leading and trailing whitespace removed.
RECURSIVE LStrip(_)
LStrip(s) == IF s # <<>> /\ IsSpace(Head(s)) THEN LStrip(Tail(s)) ELSE s
RECURSIVE RStrip(_)
RStrip(s) == IF s # <<>> /\ IsSpace(s[Len(s)]) THEN RStrip(SubSeq(s, 1, Len(s) - 1)) ELSE s
Strip(s) == RStrip(LStrip(s))

\* The digits of a literal handed to int(): whitespace stripped, one sign removed.
Unsigned(s) == LET t == Strip(s) IN IF t # <<>> /\ Head(t) \in {"-", "+"} THEN Tail(t) ELSE t
Negative(s) == LET t == Strip(s) IN t # <<>> /\ Head(t) = "-"

\* int(s, 16) and int(s) succeed (do not raise ValueError).
IsInt16(s) == Unsigned(s) # <<>> /\ \A i \in 1..Len(Unsigned(s)) : IsHexDigit(Unsigned(s)[i])
IsInt10(s) == Unsigned(s) # <<>> /\ \A i \in 1..Len(Unsigned(s)) : IsDecDigit(Unsigned(s)[i])

RECURSIVE DigitsVal(_, _)
DigitsVal(d, base) ==
    IF d = <<>> THEN 0
    ELSE DigitsVal(SubSeq(d, 1, Len(d) - 1), base) * base + DigitVal(d[Len(d)])

Int16(s) == IF Negative(s) THEN -DigitsVal(Unsigned(s), 16) ELSE DigitsVal(Unsigned(s), 16)
Int10(s) == IF Negative(s) THEN -DigitsVal(Unsigned(s), 10) ELSE DigitsVal(Unsigned(s), 10)

\* The lowercase hex digits of n >= 0, most significant first ("0" for 0).
RECURSIVE HexDigits(_)
HexDigits(n) ==
    IF n < 16 THEN <<LowerHex[n + 1]>>
    ELSE HexDigits(n \div 16) \o <<LowerHex[(n % 16) + 1]>>

Zeros(k) == [i \in 1..Max(k, 0) |-> "0"]

\* f'{n:0{width}x}': sign first, then zeros up to the width, then the digits;
\* a number that needs more than width characters is not cut.
FormatHex(n, width) ==
    IF n >= 0
    THEN Zeros(width - Len(HexDigits(n))) \o HexDigits(n)
    ELSE <<"-">> \o Zeros(width - 1 - Len(HexDigits(-n))) \o HexDigits(-n)

\* The digit-wise complement (15 - d) of a string of hex digits.
Complement(d) == [i \in 1..Len(d) |-> LowerHex[16 - DigitVal(d[i])]]

----------------------------------------------------------------------------
(* Codec: dec2hex and hex2dec                                               *)

\* The hex string of 2**bits - a for a >= 0.  TLC's integers end at 2^31 - 1, so
\* for bits >= 31 the same digits are produced without forming 2**bits:
\* 2**bits - a = (2**bits - 1) - (a - 1) is the digit-wise complement of a - 1
\* written with bits/4 digits, and 2**bits itself is a 1 followed by bits/4 zeros.
FormatPow2Minus(bits, a) ==
    IF bits < 31 THEN FormatHex(2^bits - a, bits \div 4)
    ELSE IF a = 0 THEN <<"1">> \o Zeros(bits \div 4)
    ELSE Complement(FormatHex(a - 1, bits \div 4))

dec2hex(x, bits) ==
    IF x > 0
    THEN FormatHex(x, bits \div 4)
    ELSE FormatPow2Minus(bits, Abs(x))

\* The digits of a literal without its leading zeros.
RECURSIVE Significant(_)
Significant(d) == IF d # <<>> /\ Head(d) = "0" THEN Significant(Tail(d)) ELSE d

\* int(x, 16) is below 2^31, so TLC can compute it.
FitsInt(x) ==
    LET d == Significant(Unsigned(x))
    IN Len(d) <= 7 \/ (Len(d) = 8 /\ DigitVal(d[1]) < 8)

\* hex2dec(x) where int(x, 16) does not raise.  For 4*len(x) >= 32 neither
\* 2**(bits-1) nor 2**bits is a TLC integer: a value below 2^31 is below
\* 2**(bits-1) and is returned as it is, and for eight hex digits with the top
\* bit set -(2**32 - v) is -(complement of v) - 1.
hex2dec(x) ==
    LET bits == 4 * Len(x)
    IN CASE bits < 32 ->
              IF Int16(x) < 2^(bits - 1) THEN Int16(x) ELSE -(2^bits - Int16(x))
         [] bits >= 32 /\ FitsInt(x) -> Int16(x)
         [] bits = 32 /\ ~FitsInt(x) -> (-DigitsVal(Complement(x), 16)) - 1

----------------------------------------------------------------------------
(* The codec on its own: an integer and a width are drawn, encoded, decoded *)

MaxDigits == 3
MaxX == 130

Widths == {4 * k : k \in 1..MaxDigits}

\* x is a signed value of w bits.
Representable(x, w) == -(2^(w - 1)) <= x /\ x < 2^(w - 1)

Encode ==
    /\ cpc = "in"
    /\ chex' = dec2hex(cx, cbits)
    /\ cpc' = "encoded"
    /\ UNCHANGED <<cx, cbits, cdec>>
    /\ UNCHANGED drvVars

Decode ==
    /\ cpc = "encoded"
    /\ cdec' = hex2dec(chex)
    /\ cpc' = "decoded"
    /\ UNCHANGED <<cx, cbits, chex>>
    /\ UNCHANGED drvVars


----------------------------------------------------------------------------
(* Exact fractions for the driver's float attributes                        *)

RECURSIVE GCD(_, _)
GCD(a, b) == IF b = 0 THEN a ELSE GCD(b, a % b)

\* n / d for d > 0, in lowest terms.
Frac(n, d) == LET g == GCD(Abs(n), d) IN <<n \div g, d \div g>>

\* int(q * k) for a fraction q and an integer k >= 0: truncation toward zero.
TruncMul(q, k) ==
    LET num == q[1] * k
    IN IF num >= 0 THEN num \div q[2] ELSE -((-num) \div q[2])

----------------------------------------------------------------------------
(* The transport: what a read can return                                    *)

\* The addresses a replying device puts in the first byte of a frame.
RespAddrs == {"3", "5"}

\* The error codes a status frame carries.
ErrCodes == {0, 14}

\* A read that times out returns what has arrived: nothing, the header only,
\* or the first 30 bytes (of the 35 of the device information).
Cuts == {0, 3, 30}

Upper(d) == [i \in 1..Len(d) |-> UpperHex[DigitVal(d[i]) + 1]]

EOL == <<"CR", "LF">>

StatusFrame(a, code) == <<a, "G", "S">> \o Upper(FormatHex(code, 2)) \o EOL

StatusFrames == {StatusFrame(a, c) : a \in RespAddrs, c \in ErrCodes}

\* Position frames: 10000 pulses and -500 pulses.
PosPayloads == { <<"0","0","0","0","2","7","1","0">>, <<"F","F","F","F","F","E","0","C">> }
PosFrames == {<<a, "P", "O">> \o p \o EOL : a \in RespAddrs, p \in PosPayloads}

\* Velocity frame: 50 %.
VelFrames == {<<a, "G", "V", "3", "2">> \o EOL : a \in RespAddrs}

\* Jog step frame: 1000 pulses.
JogFrames == {<<a, "G", "J", "0","0","0","0","0","3","E","8">> \o EOL : a \in RespAddrs}

\* Device information: model 0x11, serial 10600123, year 2019, firmware 0x14,
\* metric thread, hardware 1, travel 0x001C, 1000 pulses per mm.
InfoFrames ==
    {<<a, "I", "N", "1","1", "1","0","6","0","0","1","2","3", "2","0","1","9",
       "1","4", "0", "1", "0","0","1","C", "0","0","0","0","0","3","E","8">> \o EOL
       : a \in RespAddrs}

\* Motor information: loop off, motor on, current 0x0D3A, ramp up not defined,
\* ramp down 0x00FF, forward period 0x00B4, backward period 0x00B9.
MotorFrames(k) ==
    {<<a, "I", k, "0", "1", "0","D","3","A", "F","F","F","F", "0","0","F","F",
       "0","0","B","4", "0","0","B","9">> \o EOL : a \in RespAddrs}

\* The frames a device can send in answer to the request of method m: the
\* frame of that command, or a status frame.
Answers(m) ==
    StatusFrames \cup
    CASE m = "get_info" -> InfoFrames
      [] m = "_get_motor1_info" -> MotorFrames("1")
      [] m = "_get_motor2_info" -> MotorFrames("2")
      [] m \in {"get_pos", "move", "jog"} -> PosFrames
      [] m = "get_velocity" -> VelFrames
      [] m = "get_jog_stepsize" -> JogFrames
      [] OTHER -> {}

\* self.ser.read(n) after the request of method m: a whole answer, or what
\* arrived of it before the timeout.
Reads(m, n) == {Take(f, k) : f \in Answers(m), k \in Cuts \cup {n}}


----------------------------------------------------------------------------
(* The session: constants, requests                                         *)

DefaultTimeout == 2000
DiscoveryTimeout == 100
ExtendedTimeout == 10000
SearchTimeout == 10000

Addresses == UpperHex

err_msg_lst ==
    << "no error",
       "communication time out",
       "mechanical time out",
       "command error or not supported",
       "value out of range",
       "module isolated",
       "module out of isolation",
       "initializing error",
       "thermal error",
       "busy",
       "sensor error (may appear during self test. If code persists there is an error)",
       "motor error (may appear during self test. If code persists there is an error)",
       "out of range (e.g. stage has been instructed to move beyond its travel range)",
       "over current error" >>

\* The caller's budget of commands when it is not limited.
AnyNumber == -1

NoCall == [m |-> "", n |-> 0]
NoOp == [name |-> "", sarg |-> "", narg |-> 0, qarg |-> <<>>]
NoRet == [resp |-> <<>>, r_addr |-> "", r_cmd |-> <<>>]
NoInfo == [model |-> -1, serial |-> -1, year |-> -1, fwrel |-> -1, thread |-> "",
           hwrel |-> -1, travel |-> -1, pulses |-> -1]
NoSaved == [addr |-> "", info |-> NoInfo, pos |-> <<>>, velocity |-> -1, jogsize |-> <<>>]

GS == <<"G", "S">>

\* The get-status request of the probe and of the stall recovery: f'{a}gs'.
GetStatusRequest(a) == <<a, "g", "s">>

\* move: pulses = int(pos * self.pulses); hpulses = dec2hex(pulses, 32).
MovePulses(position, pulses) == TruncMul(position, pulses)

MoveCmd(position, mode, pulses) ==
    (IF mode = "abs" THEN <<"m", "a">> ELSE <<"m", "r">>)
        \o dec2hex(MovePulses(position, pulses), 32)

\* The cmd and args each method hands to _query_msg, for operation o of a
\* session whose address is a and whose pulses per mm are k.
Cmd(c, a, o, k) ==
    CASE c.m = "get_info" -> <<"i", "n">>
      [] c.m = "get_status" -> <<"g", "s">>
      [] c.m = "save_user_data" -> <<"u", "s">>
      [] c.m = "change_addr" -> <<"c", "a">> \o (IF c.n = 0 THEN <<o.sarg>> ELSE <<a>>)
      [] c.m = "_get_motor1_info" -> <<"i", "1">>
      [] c.m = "_get_motor2_info" -> <<"i", "2">>
      [] c.m = "get_motor_info" -> <<"i">> \o FormatHex(c.n, 1)
      [] c.m = "search_motor_freq" -> <<"s">> \o FormatHex(c.n, 1)
      [] c.m = "move" -> MoveCmd(o.qarg, o.sarg, k)
      [] c.m = "get_jog_stepsize" -> <<"g", "j">>
      [] c.m = "set_jog_stepsize" -> <<"s", "j">> \o FormatHex(TruncMul(o.qarg, k), 8)
      [] c.m = "jog" -> IF o.sarg = "fw" THEN <<"f", "w">> ELSE <<"b", "w">>
      [] c.m = "get_pos" -> <<"g", "p">>
      [] c.m = "get_velocity" -> <<"g", "v">>
      [] c.m = "set_velocity" -> <<"s", "v">> \o FormatHex(o.narg, 2)

\* resp_len of each method.
RespLen(c) ==
    CASE c.m = "get_info" -> 35
      [] c.m \in {"_get_motor1_info", "_get_motor2_info"} -> 27
      [] c.m \in {"move", "get_jog_stepsize", "jog", "get_pos"} -> 13
      [] OTHER -> 7

\* _query_msg, lines 92-95: the message is the session address, cmd, args.
Request(c, a, o, k) == <<a>> \o Cmd(c, a, o, k)

\* get_motor_info(motor): the method that queries motor k.
MotorCall(k) ==
    IF k = 1 THEN [m |-> "_get_motor1_info", n |-> 1]
    ELSE IF k = 2 THEN [m |-> "_get_motor2_info", n |-> 2]
    ELSE [m |-> "get_motor_info", n |-> k]


----------------------------------------------------------------------------
(* Control: calls, returns and exceptions                                   *)

\* An exception leaves the running operation; one raised in __init__ leaves
\* no session behind.
Raise(e) ==
    /\ pc' = IF op.name = "__init__" THEN "dead" ELSE "done"
    /\ outcome' = e
    /\ todo' = <<>>
    /\ UNCHANGED <<cur, wire>>

\* The operation goes on with the calls left: none, and it returns; else the
\* first one enters _query_msg, which builds the message from self.addr (an
\* AttributeError while the attribute does not exist), writes it (line 96) and
\* reads.  a is self.addr and w the requests written so far.
Run(calls, a, w) ==
    IF calls = <<>>
    THEN /\ pc' = "done"
         /\ outcome' = "ok"
         /\ todo' = <<>>
         /\ wire' = w
         /\ UNCHANGED cur
    ELSE IF a = ""
    THEN /\ pc' = IF op'.name = "__init__" THEN "dead" ELSE "done"
         /\ outcome' = "AttributeError"
         /\ todo' = <<>>
         /\ wire' = w
         /\ cur' = Head(calls)
    ELSE /\ pc' = "read1"
         /\ cur' = Head(calls)
         /\ todo' = Tail(calls)
         /\ wire' = Append(w, Request(Head(calls), a, op', info'.pulses))
         /\ UNCHANGED outcome

\* _handle_status, lines 114-118.
StatusParses(resp) == IsInt16(Slice(resp, 3, 5))

StatusCode(resp) == Int16(Slice(resp, 3, 5))

StatusMsg_from13(code) == IF code >= 13 THEN "reserved" ELSE err_msg_lst[code + 1]

StatusMsg(code) == IF code >= 14 THEN "reserved" ELSE err_msg_lst[code + 1]

_handle_status(resp) ==
    /\ err' = StatusCode(resp)
    /\ err_msg' = StatusMsg(StatusCode(resp))

\* A method that interprets its reply as a status and then makes the calls.
StatusThen(calls) ==
    IF StatusParses(ret.resp)
    THEN _handle_status(ret.resp) /\ Run(calls, addr', wire)
    ELSE UNCHANGED <<err, err_msg>> /\ Raise("ValueError")

----------------------------------------------------------------------------
(* __init__: discovery                                                      *)

InitCalls ==
    << [m |-> "get_info", n |-> 0], MotorCall(1), MotorCall(2),
       [m |-> "get_pos", n |-> 0], [m |-> "get_velocity", n |-> 0],
       [m |-> "get_jog_stepsize", n |-> 0] >>

\* Lines 65-72: the transport is opened, the discovery timeout set and the
\* first address probed.
Construct ==
    /\ pc = "new"
    /\ op' = [NoOp EXCEPT !.name = "__init__"]
    /\ ser_timeout' = DiscoveryTimeout
    /\ probe' = 0
    /\ wire' = <<GetStatusRequest(Addresses[1])>>
    /\ pc' = "probe"
    /\ UNCHANGED <<timeout, addr, info, pos, velocity, jogsize, err, err_msg,
                   saved, cur, todo, nreads, rd, first, ret, outcome, unread,
                   budget>>
    /\ UNCHANGED codecVars

\* Line 75: the address adopted is the first byte of the reply, chr(r[0]).
DiscoveredAddr_probed(r) == Addresses[probe + 1]

DiscoveredAddr(r) == r[1]

\* Lines 73-78: the probe's read; a reply ends the loop, and after the loop
\* the operating timeout is set and get_info is called.
Probe ==
    /\ pc = "probe"
    /\ UNCHANGED <<timeout, info, pos, velocity, jogsize, err, err_msg,
                   op, saved, first, ret, unread, budget>>
    /\ \E r \in Reads("get_status", 7) :
        /\ rd' = r
        /\ nreads' = nreads + 1
        /\ IF Len(r) > 0
           THEN /\ addr' = DiscoveredAddr(r)
                /\ ser_timeout' = timeout
                /\ probe' = probe
                /\ Run(InitCalls, addr', wire)
           ELSE IF probe < 15
           THEN /\ probe' = probe + 1
                /\ wire' = Append(wire, GetStatusRequest(Addresses[probe + 2]))
                /\ UNCHANGED <<addr, ser_timeout, pc, cur, todo, outcome>>
           ELSE /\ ser_timeout' = timeout
                /\ UNCHANGED <<addr, probe>>
                /\ Run(InitCalls, addr', wire)
    /\ UNCHANGED codecVars

----------------------------------------------------------------------------
(* _query_msg                                                               *)

\* What _query_msg returns for the bytes read: resp, chr(resp[0]), resp[1:3].
Returned_shifted(resp) == [resp |-> resp, r_addr |-> resp[1], r_cmd |-> Slice(resp, 0, 2)]

Returned(resp) == [resp |-> resp, r_addr |-> resp[1], r_cmd |-> Slice(resp, 1, 3)]

\* self.ser.read(n) when the bytes a arrive before the timeout: the bytes
\* received and not yet read come first; what is beyond n stays unread.
Received(a, n) == Take(unread \o a, n)

LeftUnread(a, n) == SubSeq(unread \o a, Len(Received(a, n)) + 1, Len(unread) + Len(a))

\* Lines 98-100: chr(resp[0]) raises IndexError, which starts the recovery,
\* when the read returned no byte.
Stalled_short(r) == Len(r) < 7

Stalled(r) == r = <<>>

\* Lines 97-104: the first read.  Bytes: _query_msg returns.  No byte: the
\* timeout is extended and a get-status request written.
Read1 ==
    /\ pc = "read1"
    /\ \E a \in Reads(cur.m, RespLen(cur)) :
        LET r == Received(a, RespLen(cur)) IN
        /\ rd' = r
        /\ unread' = LeftUnread(a, RespLen(cur))
        /\ first' = r
        /\ nreads' = nreads + 1
        /\ IF Stalled(r)
           THEN /\ ser_timeout' = ExtendedTimeout
                /\ wire' = Append(wire, GetStatusRequest(addr))
                /\ pc' = "read2"
                /\ UNCHANGED ret
           ELSE /\ ret' = Returned(r)
                /\ pc' = "ret"
                /\ UNCHANGED <<ser_timeout, wire>>
    /\ UNCHANGED <<timeout, addr, info, pos, velocity, jogsize, err, err_msg,
                   op, saved, cur, todo, probe, outcome, budget>>
    /\ UNCHANGED codecVars

\* The timeout _query_msg leaves in force after the recovery read (line 106).
RestoredTimeout_kept == ser_timeout

RestoredTimeout == timeout

\* The reply _query_msg uses after a recovery: the follow-up read's (line 105).
RecoveryResp(r) == r

\* Lines 105-109: the recovery read; the timeout is put back, and a second
\* empty read raises IndexError at chr(resp[0]).
Recovered(r) ==
    /\ rd' = r
    /\ nreads' = nreads + 1
    /\ ser_timeout' = RestoredTimeout
    /\ IF RecoveryResp(r) # <<>>
       THEN /\ ret' = Returned(RecoveryResp(r))
            /\ pc' = "ret"
            /\ UNCHANGED <<cur, todo, wire, outcome>>
       ELSE /\ Raise("IndexError")
            /\ UNCHANGED ret
    /\ UNCHANGED <<timeout, addr, info, pos, velocity, jogsize, err, err_msg,
                   op, saved, probe, first, budget>>
    /\ UNCHANGED codecVars

Read2 ==
    /\ pc = "read2"
    /\ \E a \in Reads("get_status", 7) :
        /\ unread' = LeftUnread(a, 7)
        /\ Recovered(Received(a, 7))

\* The recovery read when the device was only slow (line 101: for positions
\* around zero the sensor struggles to return in time): its reply f to the
\* position request arrives during the extended timeout, and read(7) returns
\* as soon as seven bytes are there; the rest of f and the reply g to the
\* get-status request of line 104 stay in the input buffer, which the code
\* never clears.
Read2Late ==
    /\ pc = "read2"
    /\ cur.m \in {"move", "jog", "get_pos"}
    /\ unread = <<>>
    /\ \E f \in Answers(cur.m), c \in ErrCodes :
        /\ unread' = LeftUnread(f \o StatusFrame(f[1], c), 7)
        /\ Recovered(Received(f, 7))


----------------------------------------------------------------------------
(* The methods: what each does with the reply of its query                  *)

\* What no method changes once its query has returned.
Same ==
    /\ UNCHANGED <<timeout, op, saved, probe, nreads, rd, first, ret, unread, budget>>
    /\ UNCHANGED codecVars

\* get_info, lines 132-142: the fields in the order they are assigned, the
\* slice each is parsed from, and the two that are parsed as decimal.
InfoFields == <<"model", "serial", "year", "fwrel", "thread", "hwrel", "travel", "pulses">>
InfoSlices == << <<3, 5>>, <<5, 13>>, <<13, 17>>, <<17, 19>>, <<19, 20>>, <<20, 21>>,
                 <<21, 25>>, <<25, 33>> >>

InfoBytes(resp, i) == Slice(resp, InfoSlices[i][1], InfoSlices[i][2])

InfoOK(resp, i) ==
    IF i \in {2, 3} THEN IsInt10(InfoBytes(resp, i)) ELSE IsInt16(InfoBytes(resp, i))

InfoValue(resp, i) ==
    IF i \in {2, 3} THEN Int10(InfoBytes(resp, i))
    ELSE IF i = 5 THEN (IF Int16(InfoBytes(resp, i)) # 0 THEN "imperial" ELSE "metric")
    ELSE Int16(InfoBytes(resp, i))

\* The number of assignments made before the first int() that raises.
InfoParsed(resp) ==
    CHOOSE n \in 0..8 : /\ \A i \in 1..n : InfoOK(resp, i)
                        /\ (n < 8 => ~InfoOK(resp, n + 1))

InfoAfter(old, resp) ==
    [f \in DOMAIN old |->
        LET i == CHOOSE j \in 1..8 : InfoFields[j] = f
        IN IF i <= InfoParsed(resp) THEN InfoValue(resp, i) ELSE old[f]]

get_info ==
    /\ pc = "ret" /\ cur.m = "get_info"
    /\ Same
    /\ UNCHANGED <<ser_timeout, addr, pos, velocity, jogsize, err, err_msg>>
    /\ info' = InfoAfter(info, ret.resp)
    /\ IF InfoParsed(ret.resp) = 8 THEN Run(todo, addr, wire) ELSE Raise("ValueError")

get_status ==
    /\ pc = "ret" /\ cur.m = "get_status"
    /\ Same
    /\ UNCHANGED <<ser_timeout, addr, info, pos, velocity, jogsize>>
    /\ StatusThen(todo)

save_user_data ==
    /\ pc = "ret" /\ cur.m = "save_user_data"
    /\ Same
    /\ UNCHANGED <<ser_timeout, addr, info, pos, velocity, jogsize>>
    /\ StatusThen(todo)

\* change_addr, line 186: the device took the new address.
Accepted_always(r_addr, new_addr) == TRUE

Accepted(r_addr, new_addr) == r_addr = new_addr

\* change_addr, line 190: the argument of the request that clears the error.
ResetCall_none == <<>>

ResetCall == <<[m |-> "change_addr", n |-> 1]>>

change_addr ==
    /\ pc = "ret" /\ cur.m = "change_addr"
    /\ Same
    /\ UNCHANGED <<ser_timeout, info, pos, velocity, jogsize>>
    /\ IF cur.n = 0
       THEN IF StatusParses(ret.resp)
            THEN /\ _handle_status(ret.resp)
                 /\ IF Accepted(ret.r_addr, op.sarg)
                    THEN addr' = op.sarg /\ Run(todo, addr', wire)
                    ELSE addr' = addr /\ Run(ResetCall \o todo, addr', wire)
            ELSE UNCHANGED <<addr, err, err_msg>> /\ Raise("ValueError")
       ELSE UNCHANGED <<addr, err, err_msg>> /\ Run(todo, addr', wire)

\* _get_motor1_info / _get_motor2_info, lines 201-221: assignment i of the
\* nine is made without an exception (7 and 9 divide by the period).
FFFF == <<"F", "F", "F", "F">>

MotorOK(resp, i) ==
    CASE i = 1 -> IsInt10(Slice(resp, 3, 4))
      [] i = 2 -> IsInt10(Slice(resp, 4, 5))
      [] i = 3 -> IsInt16(Slice(resp, 5, 9))
      [] i = 4 -> Slice(resp, 9, 13) = FFFF \/ IsInt16(Slice(resp, 9, 13))
      [] i = 5 -> Slice(resp, 13, 17) = FFFF \/ IsInt16(Slice(resp, 13, 17))
      [] i = 6 -> IsInt16(Slice(resp, 17, 21))
      [] i = 7 -> IsInt16(Slice(resp, 17, 21)) /\ Int16(Slice(resp, 17, 21)) # 0
      [] i = 8 -> IsInt16(Slice(resp, 21, 25))
      [] i = 9 -> IsInt16(Slice(resp, 21, 25)) /\ Int16(Slice(resp, 21, 25)) # 0

MotorParsed(resp) ==
    CHOOSE n \in 0..9 : /\ \A i \in 1..n : MotorOK(resp, i)
                        /\ (n < 9 => ~MotorOK(resp, n + 1))

\* The body shared by _get_motor1_info and _get_motor2_info.  The motor
\* attributes (m1_loop .. m2_bf) are read by no other method and are not kept
\* in the state; the exceptions their parsing raises are.
MotorInfo ==
    /\ Same
    /\ UNCHANGED <<ser_timeout, addr, info, pos, velocity, jogsize>>
    /\ IF ret.r_cmd = GS
       THEN StatusThen(todo)
       ELSE /\ UNCHANGED <<err, err_msg>>
            /\ IF MotorParsed(ret.resp) = 9 THEN Run(todo, addr, wire)
               ELSE IF MotorParsed(ret.resp) \in {6, 8} THEN Raise("ZeroDivisionError")
               ELSE Raise("ValueError")

_get_motor1_info ==
    /\ pc = "ret" /\ cur.m = "_get_motor1_info"
    /\ MotorInfo

_get_motor2_info ==
    /\ pc = "ret" /\ cur.m = "_get_motor2_info"
    /\ MotorInfo

\* get_motor_info for a motor other than 1 and 2, lines 296-299.
get_motor_info ==
    /\ pc = "ret" /\ cur.m = "get_motor_info"
    /\ Same
    /\ UNCHANGED <<ser_timeout, addr, info, pos, velocity, jogsize>>
    /\ StatusThen(todo)

\* search_motor_freq, lines 324-330: the status is handled, then the timeout
\* reset, then the motor information fetched again.
search_motor_freq ==
    /\ pc = "ret" /\ cur.m = "search_motor_freq"
    /\ Same
    /\ UNCHANGED <<addr, info, pos, velocity, jogsize>>
    /\ IF StatusParses(ret.resp)
       THEN /\ _handle_status(ret.resp)
            /\ ser_timeout' = timeout
            /\ Run(<<MotorCall(op.narg)>>, addr, wire)
       ELSE /\ UNCHANGED <<ser_timeout, err, err_msg>>
            /\ Raise("ValueError")


\* The position a reply carries: hex2dec(resp[3:11]) / self.pulses.
PosParses(resp) == IsInt16(Slice(resp, 3, 11))

DecodePos(resp, pulses) == Frac(hex2dec(Slice(resp, 3, 11)), pulses)

\* The test for a status frame made by move, jog, get_pos and the motor
\* methods: r_cmd == 'GS'.
IsStatus(r_cmd) == r_cmd = GS

\* move and jog after a status frame: self.get_pos() (lines 362, 427).
Resync_none == <<>>

Resync == <<[m |-> "get_pos", n |-> 0]>>

\* The body shared by move (lines 360-364), jog (425-429) and get_pos
\* (443-446) once the query has returned; after is what follows a status.
Position(after) ==
    /\ Same
    /\ UNCHANGED <<ser_timeout, addr, info, velocity, jogsize>>
    /\ IF IsStatus(ret.r_cmd)
       THEN UNCHANGED pos /\ StatusThen(after \o todo)
       ELSE /\ UNCHANGED <<err, err_msg>>
            /\ IF ~PosParses(ret.resp)
               THEN UNCHANGED pos /\ Raise("ValueError")
               ELSE IF info.pulses = 0
               THEN UNCHANGED pos /\ Raise("ZeroDivisionError")
               ELSE pos' = DecodePos(ret.resp, info.pulses) /\ Run(todo, addr, wire)

move ==
    /\ pc = "ret" /\ cur.m = "move"
    /\ Position(Resync)

jog ==
    /\ pc = "ret" /\ cur.m = "jog"
    /\ Position(Resync)

get_pos ==
    /\ pc = "ret" /\ cur.m = "get_pos"
    /\ Position(<<>>)

\* get_jog_stepsize, lines 385-386: no test for a status frame.
get_jog_stepsize ==
    /\ pc = "ret" /\ cur.m = "get_jog_stepsize"
    /\ Same
    /\ UNCHANGED <<ser_timeout, addr, info, pos, velocity, err, err_msg>>
    /\ IF ~IsInt16(Slice(ret.resp, 3, 11))
       THEN UNCHANGED jogsize /\ Raise("ValueError")
       ELSE IF info.pulses = 0
       THEN UNCHANGED jogsize /\ Raise("ZeroDivisionError")
       ELSE /\ jogsize' = Frac(Int16(Slice(ret.resp, 3, 11)), info.pulses)
            /\ Run(todo, addr, wire)

\* set_jog_stepsize, lines 407-410, and set_velocity, lines 482-485: the
\* getter is called when the error code is 0.
ReadBack_never(code, getter) == <<>>

ReadBack_always(code, getter) == <<[m |-> getter, n |-> 0]>>

ReadBack(code, getter) == IF code = 0 THEN <<[m |-> getter, n |-> 0]>> ELSE <<>>

set_jog_stepsize ==
    /\ pc = "ret" /\ cur.m = "set_jog_stepsize"
    /\ Same
    /\ UNCHANGED <<ser_timeout, addr, info, pos, velocity, jogsize>>
    /\ StatusThen(ReadBack(StatusCode(ret.resp), "get_jog_stepsize") \o todo)

\* get_velocity, lines 459-460: no test for a status frame.
get_velocity ==
    /\ pc = "ret" /\ cur.m = "get_velocity"
    /\ Same
    /\ UNCHANGED <<ser_timeout, addr, info, pos, jogsize, err, err_msg>>
    /\ IF ~IsInt16(Slice(ret.resp, 3, 5))
       THEN UNCHANGED velocity /\ Raise("ValueError")
       ELSE /\ velocity' = Int16(Slice(ret.resp, 3, 5))
            /\ Run(todo, addr, wire)

set_velocity ==
    /\ pc = "ret" /\ cur.m = "set_velocity"
    /\ Same
    /\ UNCHANGED <<ser_timeout, addr, info, pos, velocity, jogsize>>
    /\ StatusThen(ReadBack(StatusCode(ret.resp), "get_velocity") \o todo)

----------------------------------------------------------------------------
(* The caller: the public operations and their arguments                    *)

NewAddrs == {"3", "5"}
MotorNumbers == {1, 2, 3}
MovePositions == { <<10, 1>>, <<0, 1>>, <<-1, 2>> }
Modes == {"abs", "rel", "other"}
StepSizes == { <<1, 1>> }
Directions == {"fw", "bw"}
Velocities == {100}

Ops ==
    {[NoOp EXCEPT !.name = n] :
        n \in {"get_info", "get_status", "save_user_data", "get_jog_stepsize",
               "get_pos", "get_velocity"}}
    \cup {[NoOp EXCEPT !.name = "change_addr", !.sarg = a] : a \in NewAddrs}
    \cup {[NoOp EXCEPT !.name = n, !.narg = k] :
            n \in {"get_motor_info", "search_motor_freq"}, k \in MotorNumbers}
    \cup {[NoOp EXCEPT !.name = "move", !.sarg = md, !.qarg = q] :
            md \in Modes, q \in MovePositions}
    \cup {[NoOp EXCEPT !.name = "set_jog_stepsize", !.qarg = q] : q \in StepSizes}
    \cup {[NoOp EXCEPT !.name = "jog", !.sarg = d] : d \in Directions}
    \cup {[NoOp EXCEPT !.name = "set_velocity", !.narg = v] : v \in Velocities}

\* The query an operation starts with.  get_motor_info chooses its method by
\* the motor number (lines 291-295); move with an unknown mode prints and
\* returns (lines 355-357).
FirstCalls(o) ==
    CASE o.name = "get_motor_info" -> <<MotorCall(o.narg)>>
      [] o.name = "move" ->
            IF o.sarg \in {"abs", "rel"} THEN <<[m |-> "move", n |-> 0]>> ELSE <<>>
      [] OTHER -> <<[m |-> o.name, n |-> o.narg]>>

\* A public method is called on the session; search_motor_freq first raises
\* the timeout (line 319).
Invoke ==
    /\ pc = "idle"
    /\ budget # 0
    /\ budget' = IF budget > 0 THEN budget - 1 ELSE budget
    /\ UNCHANGED <<timeout, addr, info, pos, velocity, jogsize, err, err_msg,
                   probe, rd, first, ret, unread>>
    /\ UNCHANGED codecVars
    /\ \E o \in Ops :
        /\ op' = o
        /\ saved' = [addr |-> addr, info |-> info, pos |-> pos, velocity |-> velocity,
                     jogsize |-> jogsize]
        /\ nreads' = 0
        /\ ser_timeout' = IF o.name = "search_motor_freq" THEN SearchTimeout ELSE ser_timeout
        /\ Run(FirstCalls(o), addr, <<>>)

\* The operation has returned to the caller, who goes on.
Return ==
    /\ pc = "done"
    /\ pc' = "idle"
    /\ op' = NoOp
    /\ saved' = NoSaved
    /\ cur' = NoCall
    /\ todo' = <<>>
    /\ probe' = 0
    /\ wire' = <<>>
    /\ nreads' = 0
    /\ rd' = <<>>
    /\ first' = <<>>
    /\ ret' = NoRet
    /\ outcome' = ""
    /\ UNCHANGED <<timeout, ser_timeout, addr, info, pos, velocity, jogsize,
                   err, err_msg, unread, budget>>
    /\ UNCHANGED codecVars

----------------------------------------------------------------------------
(* Specifications                                                           *)

InitSession ==
    /\ pc = "new"
    /\ timeout = DefaultTimeout
    /\ ser_timeout = DefaultTimeout
    /\ addr = ""
    /\ info = NoInfo
    /\ pos = <<>>
    /\ velocity = -1
    /\ jogsize = <<>>
    /\ err = -1
    /\ err_msg = ""
    /\ op = NoOp
    /\ saved = NoSaved
    /\ cur = NoCall
    /\ todo = <<>>
    /\ probe = 0
    /\ wire = <<>>
    /\ nreads = 0
    /\ rd = <<>>
    /\ first = <<>>
    /\ ret = NoRet
    /\ outcome = ""
    /\ unread = <<>>
    /\ budget = AnyNumber

Init ==
    /\ InitSession
    /\ cx = 0 /\ cbits = 0 /\ chex = <<>> /\ cdec = 0 /\ cpc = "off"

Next ==
    \/ Construct \/ Probe \/ Read1 \/ Read2
    \/ get_info \/ get_status \/ save_user_data \/ change_addr
    \/ _get_motor1_info \/ _get_motor2_info \/ get_motor_info \/ search_motor_freq
    \/ move \/ jog \/ get_pos \/ get_jog_stepsize \/ set_jog_stepsize
    \/ get_velocity \/ set_velocity
    \/ Invoke \/ Return

Spec == Init /\ [][Next]_vars

InitCodec ==
    /\ InitSession
    /\ cx \in -MaxX..MaxX
    /\ cbits \in Widths
    /\ chex = <<>> /\ cdec = 0 /\ cpc = "in"

NextCodec == Encode \/ Decode

SpecCodec == InitCodec /\ [][NextCodec]_vars

\* _handle_status on its own: a constructed session whose get_status query
\* has just returned a status frame carrying any two hex digits, after earlier
\* status handling (or none).
HexPairs == {<<UpperHex[i], UpperHex[j]>> : i \in 1..16, j \in 1..16}

EarlierStatus == { <<-1, "">>, <<2, "mechanical time out">>, <<14, "reserved">> }

InitStatus ==
    /\ pc = "ret"
    /\ timeout = DefaultTimeout
    /\ ser_timeout = DefaultTimeout
    /\ addr = "3"
    /\ info \in {InfoAfter(NoInfo, f) : f \in {g \in InfoFrames : g[1] = "3"}}
    /\ pos = <<10, 1>>
    /\ velocity = 50
    /\ jogsize = <<1, 1>>
    /\ \E e \in EarlierStatus : err = e[1] /\ err_msg = e[2]
    /\ op = [NoOp EXCEPT !.name = "get_status"]
    /\ saved = [addr |-> addr, info |-> info, pos |-> pos, velocity |-> velocity,
                jogsize |-> jogsize]
    /\ cur = [m |-> "get_status", n |-> 0]
    /\ todo = <<>>
    /\ probe = 0
    /\ wire = <<GetStatusRequest("3")>>
    /\ nreads = 1
    /\ rd \in {<<"3", "G", "S">> \o d \o EOL : d \in HexPairs}
    /\ first = rd
    /\ ret = Returned(rd)
    /\ outcome = ""
    /\ unread = <<>>
    /\ budget = AnyNumber
    /\ cx = 0 /\ cbits = 0 /\ chex = <<>> /\ cdec = 0 /\ cpc = "off"

NextStatus == get_status \/ Return

SpecStatus == InitStatus /\ [][NextStatus]_vars

\* A constructed session (every reply of __init__ was complete) on a transport
\* whose device can be slow: MaxCommands commands of the caller, with late
\* replies.
MaxCommands == 2

InitLate ==
    /\ pc = "idle"
    /\ timeout = DefaultTimeout
    /\ ser_timeout = DefaultTimeout
    /\ addr = "3"
    /\ info \in {InfoAfter(NoInfo, f) : f \in {g \in InfoFrames : g[1] = "3"}}
    /\ pos = <<10, 1>>
    /\ velocity = 50
    /\ jogsize = <<1, 1>>
    /\ err = -1
    /\ err_msg = ""
    /\ op = NoOp
    /\ saved = NoSaved
    /\ cur = NoCall
    /\ todo = <<>>
    /\ probe = 0
    /\ wire = <<>>
    /\ nreads = 0
    /\ rd = <<>>
    /\ first = <<>>
    /\ ret = NoRet
    /\ outcome = ""
    /\ unread = <<>>
    /\ budget = MaxCommands
    /\ cx = 0 /\ cbits = 0 /\ chex = <<>> /\ cdec = 0 /\ cpc = "off"

NextLate ==
    \/ Read1 \/ Read2 \/ Read2Late
    \/ get_info \/ get_status \/ save_user_data \/ change_addr
    \/ _get_motor1_info \/ _get_motor2_info \/ get_motor_info \/ search_motor_freq
    \/ move \/ jog \/ get_pos \/ get_jog_stepsize \/ set_jog_stepsize
    \/ get_velocity \/ set_velocity
    \/ Invoke \/ Return

SpecLate == InitLate /\ [][NextLate]_vars


----------------------------------------------------------------------------
(* Properties                                                               *)

\* A complete status frame: address, GS, two hex digits, CR LF.
ValidStatusFrame(f) ==
    /\ Len(f) = 7
    /\ f[2] = "G" /\ f[3] = "S"
    /\ IsHexDigit(f[4]) /\ IsHexDigit(f[5])
    /\ f[6] = "CR" /\ f[7] = "LF"

\* The operation has returned control to its caller (normally or not).
AtCaller == pc \in {"done", "dead", "idle"}

\* C1.  Stall recovery: when the first read of a query returned no byte and
\* the follow-up read returned a complete status frame, the query returns
\* that frame, its first byte as responder address and its bytes 1:3 as
\* responder command, and the transport timeout is the operating timeout.
C1_StallRecovery ==
    (pc = "ret" /\ first = <<>> /\ ValidStatusFrame(rd)) =>
        /\ ret.resp = rd
        /\ ret.r_addr = rd[1]
        /\ ret.r_cmd = <<rd[2], rd[3]>>
        /\ ser_timeout = timeout
        /\ ser_timeout # ExtendedTimeout

C1_Witness ==
    /\ pc = "ret" /\ first = <<>> /\ ValidStatusFrame(rd)
    /\ op.name = "search_motor_freq"
    /\ ret.r_cmd = GS

\* C2.  Timeout scoping, as claimed: whenever an operation has returned
\* control to the caller, the transport timeout is the operating timeout.
C2_TimeoutScoped == AtCaller => ser_timeout = timeout

\* C3.  Discovery.  While probing, the requests written are the probes of
\* '0', '1', ... in order, one per read, and every read so far was empty.
\* Once a reply has come, the session address is the first byte of that
\* reply, the next request is get_info at that address, and every later
\* request of __init__ is addressed to it: no later address is probed.
ProbesInOrder(n) == \A i \in 1..n : wire[i] = GetStatusRequest(Addresses[i])

C3_DiscoveryCommon ==
    /\ (pc = "probe" =>
            /\ Len(wire) = probe + 1 /\ nreads = probe
            /\ ProbesInOrder(probe + 1)
            /\ addr = ""
            /\ (nreads > 0 => rd = <<>>))
    /\ (op.name = "__init__" /\ pc \notin {"new", "probe"} /\ addr # "" =>
            /\ Len(wire) >= probe + 2
            /\ ProbesInOrder(probe + 1)
            /\ wire[probe + 2] = <<addr, "i", "n">>
            /\ \A i \in (probe + 2)..Len(wire) : wire[i][1] = addr)

JustDiscovered ==
    op.name = "__init__" /\ pc = "read1" /\ cur.m = "get_info" /\ nreads = probe + 1

C3_Discovery ==
    /\ C3_DiscoveryCommon
    /\ (JustDiscovered => rd # <<>> /\ addr = rd[1])

\* C3 as claimed: the address adopted is the probed address.
C3_ProbedAddressAdopted ==
    /\ C3_DiscoveryCommon
    /\ (JustDiscovered => rd # <<>> /\ addr = Addresses[probe + 1])

C3_Witness == JustDiscovered /\ probe = 5 /\ addr = "5" /\ Len(wire) = 7

\* C4.  Discovery failure, as claimed: when no probe is answered,
\* construction fails with the no-device-found error after exactly 16
\* probes, and nothing else is written.
C4_NoDeviceFound ==
    (pc = "dead" /\ addr = "") =>
        /\ outcome = "NoDeviceFoundError"
        /\ Len(wire) = 16
        /\ ProbesInOrder(16)

\* C5.  Rejected address change.  When the complete reply to
\* change_addr(new) carries a responder address other than new, the session
\* address stays the address before the call and the next request written is
\* change-address with the old address as prefix and as argument; when it
\* carries new, the session address becomes new and the call returns without
\* another request.  The operation writes two change-address requests in the
\* first case and one otherwise.
IsChangeRequest(q) == Len(q) = 4 /\ q[2] = "c" /\ q[3] = "a"

ChangeRequests == Cardinality({i \in 1..Len(wire) : IsChangeRequest(wire[i])})

C5_ReplyStep ==
    (pc = "ret" /\ cur = [m |-> "change_addr", n |-> 0] /\ Len(ret.resp) = 7) =>
        IF ret.r_addr # op.sarg
        THEN /\ addr' = saved.addr
             /\ pc' = "read1"
             /\ cur' = [m |-> "change_addr", n |-> 1]
             /\ wire' = Append(wire, <<saved.addr, "c", "a", saved.addr>>)
        ELSE /\ addr' = op.sarg
             /\ pc' = "done" /\ outcome' = "ok"
             /\ wire' = wire

C5_Requests ==
    op.name = "change_addr" =>
        /\ wire[1] = <<saved.addr, "c", "a", op.sarg>>
        /\ ChangeRequests = (IF cur.n = 1 THEN 2 ELSE 1)
        /\ (cur.n = 1 => addr = saved.addr)

C5_ChangeAddress == []C5_Requests /\ [][C5_ReplyStep]_vars

C5_Witness ==
    /\ pc = "done" /\ op.name = "change_addr" /\ outcome = "ok"
    /\ op.sarg = "5" /\ ret.r_addr = "3" /\ saved.addr = "3" /\ addr = "3"
    /\ cur.n = 1
    /\ wire = << <<"3", "c", "a", "5">>, <<"3", "c", "a", "3">> >>

\* C6.  Frame condition of the session address: once discovery is over, the
\* address changes only in the step of change_addr(new) that handles a reply
\* whose responder address is new, and it becomes new.
C6_AddressStep ==
    (pc \notin {"new", "probe"} /\ addr' # addr) =>
        /\ pc = "ret" /\ cur = [m |-> "change_addr", n |-> 0]
        /\ ret.r_addr = op.sarg
        /\ addr' = op.sarg

C6_AddressFrame == [][C6_AddressStep]_vars

C6_Witness ==
    /\ pc = "done" /\ op.name = "change_addr"
    /\ saved.addr = "3" /\ addr = "5" /\ ret.r_addr = "5"

\* C7.  As claimed: a method that handles a reply whose command code is GS
\* writes none of the cached position, velocity and jog step size.
C7_StatusStep ==
    (pc = "ret" /\ ret.r_cmd = GS) =>
        pos' = pos /\ velocity' = velocity /\ jogsize' = jogsize

C7_StatusKeepsCache == [][C7_StatusStep]_vars

\* C8.  Resynchronisation.  When move or jog gets a complete status frame
\* for its query (directly or through the stall recovery), it leaves the
\* position alone and the next request it writes is get-position at the
\* session address.  When the call returns after that, the position is the
\* one the get-position reply carries, or the position before the call when
\* that reply is a status frame or get_pos raised.
PayloadPulses(p) ==
    CASE p = <<"0","0","0","0","2","7","1","0">> -> 10000
      [] p = <<"F","F","F","F","F","E","0","C">> -> -500

C8_StatusStep ==
    (pc = "ret" /\ cur.m \in {"move", "jog"} /\ ret.r_cmd = GS /\ Len(ret.resp) = 7) =>
        /\ pos' = pos
        /\ pc' = "read1"
        /\ cur'.m = "get_pos"
        /\ wire' = Append(wire, <<addr, "g", "p">>)

C8_Returned ==
    (pc = "done" /\ op.name \in {"move", "jog"} /\ cur.m = "get_pos") =>
        IF outcome = "ok" /\ ret.r_cmd # GS
        THEN /\ Len(ret.resp) = 13
             /\ pos[1] * info.pulses = PayloadPulses(Slice(ret.resp, 3, 11)) * pos[2]
        ELSE pos = saved.pos

C8_Resync == []C8_Returned /\ [][C8_StatusStep]_vars

C8_Witness ==
    /\ pc = "done" /\ op.name = "move" /\ cur.m = "get_pos" /\ outcome = "ok"
    /\ ret.r_cmd = <<"P", "O">>
    /\ saved.pos = <<10, 1>> /\ pos = <<-1, 2>>
    /\ Len(wire) = 3
    /\ wire[2] = GetStatusRequest(addr)
    /\ wire[3] = <<addr, "g", "p">>

\* C9.  Round trip, as claimed: hex2dec(dec2hex(x, w)) = x for every x that
\* is a signed value of w bits.
C9_RoundTrip == (cpc = "decoded" /\ Representable(cx, cbits)) => cdec = cx

\* C10.  Move framing, as claimed: the move request is the session address,
\* 'ma' or 'mr', and the eight hex digits of the 32-bit two's complement of
\* the pulse count; it is the only move request of the call.
TwosComplement32(p) ==
    IF p >= 0 THEN FormatHex(p, 8) ELSE Complement(FormatHex((-p) - 1, 8))

IsMoveRequest(q) == Len(q) >= 3 /\ q[2] = "m" /\ q[3] \in {"a", "r"}

C10_MoveFraming ==
    (op.name = "move" /\ op.sarg \in {"abs", "rel"}) =>
        /\ wire[1] = <<saved.addr>>
                       \o (IF op.sarg = "abs" THEN <<"m", "a">> ELSE <<"m", "r">>)
                       \o TwosComplement32(MovePulses(op.qarg, info.pulses))
        /\ Len(wire[1]) = 11
        /\ Cardinality({i \in 1..Len(wire) : IsMoveRequest(wire[i])}) = 1
        /\ (op.qarg = <<10, 1>> /\ info.pulses = 1000 =>
                SubSeq(wire[1], 4, 11) = <<"0","0","0","0","2","7","1","0">>)

\* C11.  Encoder range check, as claimed: dec2hex returns no string for a
\* value whose magnitude does not fit in the width, and never returns more
\* than bits/4 hex digits.
C11_EncoderRangeCheck ==
    cpc = "encoded" =>
        /\ Abs(cx) < 2^cbits
        /\ Len(chex) <= cbits \div 4

\* C12.  Round trips of a public command.  Every request written is followed
\* by one read.  A command makes one query, and a second one exactly when it
\* is a change of address that was rejected, a move or jog answered by a
\* status frame, a setter whose status code is 0, or search_motor_freq (which
\* fetches the motor information again); it never makes a third.  Each query
\* is one round trip, or two when its first read stalled, so a command makes
\* between 0 (move with an unknown mode) and 4 round trips.
IsCommand == op.name \notin {"", "__init__"}

QueryCalls ==
    IF cur = NoCall THEN 0
    ELSE IF cur = Head(FirstCalls(op)) THEN 1
    ELSE 2

SecondQueryDue ==
    /\ StatusParses(ret.resp)
    /\ \/ cur.m = "change_addr" /\ ret.r_addr # op.sarg
       \/ cur.m \in {"move", "jog"} /\ ret.r_cmd = GS
       \/ cur.m \in {"set_velocity", "set_jog_stepsize"} /\ StatusCode(ret.resp) = 0
       \/ cur.m = "search_motor_freq"

C12_QueryStep ==
    (IsCommand /\ pc = "ret") =>
        IF QueryCalls = 1 /\ SecondQueryDue
        THEN pc' = "read1" /\ Len(wire') = Len(wire) + 1
        ELSE pc' = "done" /\ wire' = wire

C12_Counts ==
    IsCommand =>
        /\ Len(wire) <= 4
        /\ QueryCalls <= 2
        /\ (pc = "done" =>
                /\ nreads = Len(wire)
                /\ QueryCalls <= Len(wire)
                /\ Len(wire) <= 2 * QueryCalls)

C12_RoundTrips == []C12_Counts /\ [][C12_QueryStep]_vars

\* C12 as claimed: one round trip, or two after a stall or a rejected
\* address change, and never more.
C12_OneOrTwoRoundTrips ==
    (IsCommand /\ pc = "done") =>
        /\ nreads = Len(wire)
        /\ Len(wire) \in {1, 2}
        /\ (Len(wire) = 2 => first = <<>> \/ (op.name = "change_addr" /\ cur.n = 1))

C12_Witness ==
    /\ pc = "done" /\ op.name = "move" /\ outcome = "ok"
    /\ cur.m = "get_pos" /\ first = <<>>
    /\ Len(wire) = 4 /\ nreads = 4
    /\ wire[2] = GetStatusRequest(addr) /\ wire[3] = <<addr, "g", "p">>

\* C13.  Failed recovery.  When both reads of a query of a command return no
\* byte, the command ends with the exception raised at the address byte
\* (IndexError), the transport timeout is the operating timeout, and the
\* session address, the device information and the cached position, velocity
\* and jog step size are the ones the command was called with.  The session
\* stays usable: every request of a command carries the session address, and
\* a command whose query is answered by a complete frame of its own goes on
\* without an exception (in a session whose pulses per mm are not 0).
FailedRecovery ==
    /\ IsCommand /\ pc = "done"
    /\ first = <<>> /\ rd = <<>> /\ nreads >= 2

C13_Failed ==
    FailedRecovery =>
        /\ outcome = "IndexError"
        /\ addr = saved.addr
        /\ info = saved.info
        /\ pos = saved.pos /\ velocity = saved.velocity /\ jogsize = saved.jogsize
        /\ ser_timeout = timeout

OwnFrames(m) ==
    CASE m = "get_info" -> InfoFrames
      [] m = "_get_motor1_info" -> MotorFrames("1")
      [] m = "_get_motor2_info" -> MotorFrames("2")
      [] m \in {"get_pos", "move", "jog"} -> PosFrames
      [] m = "get_velocity" -> VelFrames
      [] m = "get_jog_stepsize" -> JogFrames
      [] OTHER -> StatusFrames

C13_UsableStep ==
    /\ (pc = "idle" /\ pc' = "read1" => addr' = addr /\ wire' = <<Request(cur', addr, op', info.pulses)>>)
    /\ (IsCommand /\ pc = "ret" /\ ret.resp \in OwnFrames(cur.m) /\ info.pulses > 0 =>
            /\ outcome' \in {"", "ok"}
            /\ (pc' = "read1" => wire'[Len(wire')][1] = addr'))

C13_FailedRecovery == []C13_Failed /\ [][C13_UsableStep]_vars

C13_Witness ==
    /\ FailedRecovery /\ outcome = "IndexError"
    /\ op.name = "set_velocity" /\ cur.m = "get_velocity"
    /\ err = 0 /\ velocity = saved.velocity
    /\ wire = << <<addr, "s", "v", "6", "4">>, <<addr, "g", "v">>, GetStatusRequest(addr) >>

\* C14.  Status decoding.  When a status frame carrying the two hex digits of
\* code c has been handled, the stored code is c and the stored message is
\* entry c of the table for c <= 13 ("no error" for 0, "over current error"
\* for 13) and "reserved" for c >= 14; and at all times a stored code has the
\* message that belongs to it.
FrameCode(f) == 16 * DigitVal(f[4]) + DigitVal(f[5])

MessageOf(c) == IF c <= 13 THEN err_msg_lst[c + 1] ELSE "reserved"

C14_StatusDecoding ==
    /\ (pc = "done" /\ cur.m = "get_status" =>
            /\ outcome = "ok"
            /\ err = FrameCode(ret.resp)
            /\ err_msg = MessageOf(FrameCode(ret.resp))
            /\ (FrameCode(ret.resp) = 0 => err_msg = "no error")
            /\ (FrameCode(ret.resp) = 13 => err_msg = "over current error")
            /\ (FrameCode(ret.resp) >= 14 => err_msg = "reserved"))
    /\ (err # -1 => err \in 0..255 /\ err_msg = MessageOf(err))
    /\ Len(err_msg_lst) = 14

C14_Witness ==
    /\ pc = "done" /\ cur.m = "get_status"
    /\ ret.resp = <<"3", "G", "S", "0", "D">> \o EOL
    /\ err = 13 /\ err_msg = "over current error"

\* C15.  Setter read-back.  When the query of set_velocity or
\* set_jog_stepsize has returned, the getter's request is the next one written
\* exactly when the reply's error code parses and is 0; otherwise nothing more
\* is written and the cached values stay.  On return, a setter that made no
\* read-back, or whose read-back raised, leaves the cached velocity and jog
\* step size as they were at the call; after a read-back that returned, the
\* value of the setter's attribute is the one the getter's reply carries,
\* whatever the argument was.
IsSetter(m) == m \in {"set_velocity", "set_jog_stepsize"}

GetterRequest(m) == IF m = "set_velocity" THEN <<addr, "g", "v">> ELSE <<addr, "g", "j">>

C15_SetterStep ==
    (pc = "ret" /\ IsSetter(cur.m)) =>
        IF IsInt16(Slice(ret.resp, 3, 5)) /\ FrameCode(ret.resp) = 0
        THEN /\ pc' = "read1"
             /\ wire' = Append(wire, GetterRequest(cur.m))
             /\ velocity' = velocity /\ jogsize' = jogsize
        ELSE /\ pc' = "done"
             /\ wire' = wire
             /\ velocity' = velocity /\ jogsize' = jogsize

C15_Returned ==
    (pc = "done" /\ IsSetter(op.name)) =>
        IF IsSetter(cur.m) \/ outcome # "ok"
        THEN velocity = saved.velocity /\ jogsize = saved.jogsize
        ELSE IF op.name = "set_velocity"
        THEN /\ cur.m = "get_velocity"
             /\ velocity = FrameCode(ret.resp)
             /\ jogsize = saved.jogsize
        ELSE /\ cur.m = "get_jog_stepsize"
             /\ jogsize[1] * info.pulses = Int16(Slice(ret.resp, 3, 11)) * jogsize[2]
             /\ velocity = saved.velocity

C15_ReadBack == []C15_Returned /\ [][C15_SetterStep]_vars

C15_Witness ==
    /\ pc = "done" /\ op.name = "set_velocity" /\ op.narg = 100 /\ outcome = "ok"
    /\ cur.m = "get_velocity"
    /\ ret.resp = <<addr, "G", "V", "3", "2">> \o EOL
    /\ velocity = 50
    /\ wire = << <<addr, "s", "v", "6", "4">>, <<addr, "g", "v">> >>

\* C16.  Construction ordering, as claimed: after discovery the first request
\* is get_info at the adopted address; a request whose reply is converted
\* with the pulses per mm is written only once they have been parsed; and a
\* get_info reply that is not a complete information frame ends construction
\* with nothing more written.
UsesPulses(q) ==
    /\ Len(q) >= 3
    /\ <<q[2], q[3]>> \in {<<"g", "p">>, <<"g", "j">>, <<"m", "a">>, <<"m", "r">>,
                            <<"f", "w">>, <<"b", "w">>}

C16_InfoFirst ==
    (op.name = "__init__" /\ pc \notin {"new", "probe"} /\ addr # "") =>
        /\ wire[probe + 2] = <<addr, "i", "n">>
        /\ \A i \in 1..Len(wire) : UsesPulses(wire[i]) => info.pulses # NoInfo.pulses

C16_InfoStep ==
    (op.name = "__init__" /\ pc = "ret" /\ cur.m = "get_info" /\ ret.resp \notin InfoFrames) =>
        /\ pc' = "dead"
        /\ wire' = wire

C16_ConstructionOrdering == []C16_InfoFirst /\ [][C16_InfoStep]_vars

\* C17.  Bounded retry.  The first read of a query is followed by the
\* recovery (timeout 10 s, get-status written at the session address, one
\* read) exactly when it returned no byte; a read that returned bytes, however
\* few, makes the query return with nothing written.  The recovery read is
\* entered only from an empty first read and is followed by the return of the
\* query or by its exception, never by another request or read of that query:
\* a query writes at most two requests and makes at most two reads.
C17_QueryStep ==
    /\ (pc = "read1" =>
            /\ nreads' = nreads + 1
            /\ first' = rd'
            /\ IF rd' = <<>>
               THEN /\ pc' = "read2"
                    /\ wire' = Append(wire, GetStatusRequest(addr))
                    /\ ser_timeout' = ExtendedTimeout
               ELSE /\ pc' = "ret"
                    /\ wire' = wire
                    /\ ser_timeout' = ser_timeout
                    /\ ret'.resp = rd')
    /\ (pc = "read2" =>
            /\ nreads' = nreads + 1
            /\ wire' = wire
            /\ first' = <<>>
            /\ pc' = IF rd' # <<>> THEN "ret"
                     ELSE IF op.name = "__init__" THEN "dead" ELSE "done")
    /\ (pc' = "read2" => pc = "read1")
    /\ (pc \notin {"probe", "read1", "read2", "done"} => nreads' = nreads)

C17_BoundedRetry == [][C17_QueryStep]_vars

C17_Witness ==
    /\ pc = "ret" /\ IsCommand
    /\ first = <<addr, "G", "S">> /\ ret.resp = first
    /\ Len(wire) = 1 /\ nreads = 1
    /\ ser_timeout = timeout

\* C18.  Reply matching, as claimed: when a query returns, the bytes it
\* returns are (the beginning of) a reply to the last request it wrote, the
\* get-status request after a stall and the command's own request otherwise,
\* and no received byte is left unread in the transport.
IsPrefixOf(r, f) == Len(r) <= Len(f) /\ r = Take(f, Len(r))

C18_ReplyMatching ==
    pc = "ret" =>
        /\ unread = <<>>
        /\ IF first = <<>>
           THEN \E g \in StatusFrames : IsPrefixOf(ret.resp, g)
           ELSE \E f \in Answers(cur.m) : IsPrefixOf(ret.resp, f)


====
